---- MODULE Spec2Model ----
(***************************************************************************)
(* Routing and budget-control subsystem of PC-Agent-Plus:                  *)
(*   ModelSelector (src/model_selector.py),                                *)
(*   BudgetTracker (src/budget_tracker.py),                                *)
(*   ComplexityScorer (src/complexity_scorer.py) and                       *)
(*   RouterAgent (src/router_init.py).                                     *)
(*                                                                         *)
(* Units.  Money is counted in units of 0.0005 currency, so that every     *)
(* default of the source is an integer: min_cost_per_call 0.001 = 2,       *)
(* critical_threshold 0.5 = 1000, daily_limit 10.0 = 20000.  Complexity    *)
(* scores and thresholds are counted in tenths: 0.8 = 8, 1.0 = 10.         *)
(* Time is counted in slots of half a day; a slot that starts a day is     *)
(* that day's midnight.                                                    *)
(***************************************************************************)
EXTENDS Integers, Sequences, FiniteSets, TLC

VARIABLES config, models, request, selected, tracker, clock, history,
          routing_history, callers

vars == <<config, models, request, selected, tracker, clock, history,
         routing_history, callers>>

\* ---------------------------------------------------------------- bounds
\* last day of the calendar window
MaxDay == 4
\* most ledger records kept in a run
MaxLedger == 2
\* largest cost of one expense of the small configurations
MaxCost == 1
\* largest finite 'remaining' of a budget status handed to the selector
MaxRemaining == 2
\* largest configured min_cost_per_call
MaxFloor == 2

\* ------------------------------------------------------------- utilities
\* dict.get(key, default)
Get(d, k, default) == IF k \in DOMAIN d THEN d[k] ELSE default

Min2(a, b) == IF a <= b THEN a ELSE b

Max2(a, b) == IF a >= b THEN a ELSE b

\* the empty dict
EmptyDict == [k \in {} |-> 0]

\* the value None
None == [none |-> TRUE]

\* float('inf'), larger than every amount of the model
Inf == 1000000000

\* ------------------------------------------------------ ModelSelector
Tiers == {"premium", "mid", "open", "rule"}

DefaultMinCost == 2

DefaultPremiumThreshold == 8

DefaultMidThreshold == 5

DefaultOpenThreshold == 2

\* a catalog that holds 'rule' only when the configuration enables it
InitializeModelsNoRule(cfg) ==
    LET model_configs == Get(cfg, "models", EmptyDict)
    IN  {t \in DOMAIN model_configs : Get(model_configs[t], "enabled", FALSE)}

\* ModelSelector._initialize_models: the tiers whose configuration has
\* enabled = true, plus 'rule'
InitializeModels(cfg) ==
    LET model_configs == Get(cfg, "models", EmptyDict)
        enabled == {t \in DOMAIN model_configs :
                        Get(model_configs[t], "enabled", FALSE)}
    IN  IF "rule" \notin enabled THEN enabled \cup {"rule"} ELSE enabled

\* the min_cost_per_call floor _can_afford_model reads for a tier
MinCost(cfg, model_type) ==
    LET model_config == Get(Get(cfg, "models", EmptyDict), model_type, EmptyDict)
    IN  Get(model_config, "min_cost_per_call", DefaultMinCost)

\* a floor compared with > instead of >=
CanAffordModelStrict(cfg, model_type, budget_remaining) ==
    budget_remaining > MinCost(cfg, model_type)

\* a tier that is affordable whenever the budget is not overdrawn
CanAffordModelNoFloor(cfg, model_type, budget_remaining) ==
    budget_remaining >= 0

\* ModelSelector._can_afford_model
CanAffordModel(cfg, model_type, budget_remaining) ==
    budget_remaining >= MinCost(cfg, model_type)

\* the subscript self.models[t]: the tier's client, or KeyError
ModelsLookup(ms, t) ==
    IF t \in ms THEN [raised |-> FALSE, model_type |-> t, client |-> t]
    ELSE [raised |-> TRUE, model_type |-> "KeyError", client |-> None]

\* the thresholds select_model reads, with its defaults
Thresholds(cfg) ==
    LET thresholds == Get(cfg, "thresholds", EmptyDict)
    IN  [premium |-> Get(thresholds, "premium", DefaultPremiumThreshold),
         mid |-> Get(thresholds, "mid", DefaultMidThreshold),
         open |-> Get(thresholds, "open", DefaultOpenThreshold)]

\* a comparison turned round
FallsBelow(complexity, threshold) == complexity < threshold

\* a threshold that is passed when it is reached
ExceedsOrReaches(complexity, threshold) == complexity >= threshold

\* the comparison of a complexity with a threshold in select_model
Exceeds(complexity, threshold) == complexity > threshold

\* ModelSelector.select_model
SelectModelFn(cfg, ms, complexity, budget_status) ==
    LET premium_threshold == Thresholds(cfg).premium
        mid_threshold == Thresholds(cfg).mid
        open_threshold == Thresholds(cfg).open
        budget_critical == Get(budget_status, "is_critical", FALSE)
        budget_remaining == Get(budget_status, "remaining", Inf)
    IN  IF /\ Exceeds(complexity, premium_threshold)
           /\ ~budget_critical
           /\ CanAffordModel(cfg, "premium", budget_remaining)
        THEN ModelsLookup(ms, "premium")
        ELSE IF /\ Exceeds(complexity, mid_threshold)
                /\ CanAffordModel(cfg, "mid", budget_remaining)
        THEN ModelsLookup(ms, "mid")
        ELSE IF /\ Exceeds(complexity, mid_threshold)
                /\ ~budget_critical
                /\ CanAffordModel(cfg, "premium", budget_remaining)
        THEN ModelsLookup(ms, "premium")
        ELSE IF Exceeds(complexity, open_threshold)
        THEN IF CanAffordModel(cfg, "open", budget_remaining)
             THEN ModelsLookup(ms, "open")
             ELSE ModelsLookup(ms, "rule")
        ELSE ModelsLookup(ms, "rule")

\* configurations of one tier found in config['models']
TierConfigs ==
    {[enabled |-> FALSE], [enabled |-> TRUE]}
    \cup {[enabled |-> TRUE, min_cost_per_call |-> f] : f \in 1..MaxFloor}

RuleConfigs == {[enabled |-> FALSE], [enabled |-> TRUE]}

\* config['models']: any subset of the tiers may be absent
ModelsConfigs ==
    UNION {{m \in [S -> TierConfigs] : "rule" \in S => m["rule"] \in RuleConfigs} :
              S \in SUBSET Tiers}

ThresholdValues == {3, 6}

\* config['thresholds']: every triple, ordered or not, and the section
\* left empty
ThresholdsConfigs == [{"premium", "mid", "open"} -> ThresholdValues] \cup {EmptyDict}

\* every score in tenths
ComplexityValues == 0..10

\* budget statuses handed to select_model: the mapping of
\* check_budget_status reduced to the keys select_model reads, and the
\* mapping without them
BudgetStatuses ==
    {[is_critical |-> b, remaining |-> r] : b \in BOOLEAN, r \in 0..MaxRemaining}
    \cup {EmptyDict}

\* the configuration every component falls back to
DefaultModels == [t \in Tiers |-> [enabled |-> TRUE]]

NoRequest == [op |-> "none"]

NoSelection == [op |-> "none"]

\* ------------------------------------------------------------ the clock
\* the calendar window: day 0 is Sunday 28 January 2024 (Monday = 0),
\* day 4 is Thursday 1 February; a day has two slots
Calendar == [epoch_weekday |-> 6, next_month_first |-> 4, month_length |-> 31,
             slots_per_day |-> 2]

MaxClock == (MaxDay + 1) * Calendar.slots_per_day - 1

\* slots the clock may advance while one call runs: a call is short, it
\* sees at most one slot boundary pass
Ticks == {0, 1}

\* datetime.date()
Day(t) == t \div Calendar.slots_per_day

\* datetime.weekday()
Weekday(d) == (d + Calendar.epoch_weekday) % 7

\* now.replace(day=1).date()
MonthStart(t) ==
    IF Day(t) >= Calendar.next_month_first
    THEN Calendar.next_month_first
    ELSE Calendar.next_month_first - Calendar.month_length

\* the values a read of datetime.now() may return in a call entered at
\* time entry, when the call's previous read returned t; the first read of
\* a call returns the time the call is entered (time that passes before it
\* is a ClockAdvance)
NowAfter(entry, t) == {entry + k : k \in Ticks} \cap (t..MaxClock)

\* ------------------------------------------------------- BudgetTracker
DefaultDailyLimit == 20000

DefaultWeeklyLimit == 100000

DefaultMonthlyLimit == 400000

DefaultWarningThreshold == 4000

DefaultCriticalThreshold == 1000

\* BudgetTracker._get_week_start, with now the value its datetime.now()
\* returns: Monday 00:00:00 of now's week, a datetime
GetWeekStart(now) == (Day(now) - Weekday(Day(now))) * Calendar.slots_per_day

\* BudgetTracker.__init__; t1, t2, t3 are its three reads of the clock
NewTracker(cfg, t1, t2, t3) ==
    LET budget_config == Get(cfg, "budget", EmptyDict)
    IN  [daily_budget |-> Get(budget_config, "daily_limit", DefaultDailyLimit),
         weekly_budget |-> Get(budget_config, "weekly_limit", DefaultWeeklyLimit),
         monthly_budget |-> Get(budget_config, "monthly_limit", DefaultMonthlyLimit),
         warning_threshold |->
             Get(budget_config, "warning_threshold", DefaultWarningThreshold),
         critical_threshold |->
             Get(budget_config, "critical_threshold", DefaultCriticalThreshold),
         expenses |-> <<>>,
         daily_expenses |-> 0,
         weekly_expenses |-> 0,
         monthly_expenses |-> 0,
         current_day |-> Day(t1),
         current_week |-> GetWeekStart(t2),
         current_month |-> MonthStart(t3)]

\* a new day that resets all three counters
UpdateDayResetsAll(tr, now) ==
    IF Day(now) # tr.current_day
    THEN [tr EXCEPT !.daily_expenses = 0, !.weekly_expenses = 0,
                    !.monthly_expenses = 0, !.current_day = Day(now)]
    ELSE tr

\* a new day that moves the anchor and keeps the day's spend
UpdateDayKeepsSpend(tr, now) ==
    IF Day(now) # tr.current_day
    THEN [tr EXCEPT !.current_day = Day(now)]
    ELSE tr

\* the day block of _update_periods
UpdateDay(tr, now) ==
    IF Day(now) # tr.current_day
    THEN [tr EXCEPT !.daily_expenses = 0, !.current_day = Day(now)]
    ELSE tr

\* the week block of _update_periods; now is the read of _get_week_start
UpdateWeek(tr, now) ==
    IF GetWeekStart(now) # tr.current_week
    THEN [tr EXCEPT !.weekly_expenses = 0, !.current_week = GetWeekStart(now)]
    ELSE tr

\* a new month that also empties the ledger
UpdateMonthDropsLedger(tr, now) ==
    IF MonthStart(now) # tr.current_month
    THEN [tr EXCEPT !.monthly_expenses = 0, !.current_month = MonthStart(now),
                    !.expenses = <<>>]
    ELSE tr

\* the month block of _update_periods
UpdateMonth(tr, now) ==
    IF MonthStart(now) # tr.current_month
    THEN [tr EXCEPT !.monthly_expenses = 0, !.current_month = MonthStart(now)]
    ELSE tr

\* BudgetTracker._update_periods; t1 is its own read of the clock, t2 the
\* read of _get_week_start
UpdatePeriods(tr, t1, t2) == UpdateMonth(UpdateWeek(UpdateDay(tr, t1), t2), t1)

\* ExpenseRecord
ExpenseRecord(timestamp, model_type, cost) ==
    [timestamp |-> timestamp, model_type |-> model_type, cost |-> cost,
     success |-> TRUE]

\* an expense that is not added to the weekly counter
AddCostNoWeekly(tr, cost) ==
    [tr EXCEPT !.daily_expenses = @ + cost,
               !.monthly_expenses = @ + cost]

\* an expense subtracted from the three counters
AddCostAsCredit(tr, cost) ==
    [tr EXCEPT !.daily_expenses = @ - cost,
               !.weekly_expenses = @ - cost,
               !.monthly_expenses = @ - cost]

\* the three += of record_expense
AddCost(tr, cost) ==
    [tr EXCEPT !.daily_expenses = @ + cost,
               !.weekly_expenses = @ + cost,
               !.monthly_expenses = @ + cost]

\* an expense added before the rollover check instead of after it
RecordExpenseAddsFirst(tr, cost, model_type, t1, t2, t3) ==
    LET tr1 == AddCost(tr, cost)
        tr2 == [tr1 EXCEPT !.expenses =
                    Append(@, ExpenseRecord(t3, model_type, cost))]
    IN  UpdatePeriods(tr2, t1, t2)

\* BudgetTracker.record_expense; t3 is the read that timestamps the record
RecordExpenseFn(tr, cost, model_type, t1, t2, t3) ==
    LET tr1 == UpdatePeriods(tr, t1, t2)
        tr2 == [tr1 EXCEPT !.expenses =
                    Append(@, ExpenseRecord(t3, model_type, cost))]
    IN  AddCost(tr2, cost)

\* a remaining amount that goes negative when a limit is overspent
RemainingUnclamped(limit, spent) == limit - spent

\* max(0, limit - spent), the remaining amount of one period
Remaining(limit, spent) == Max2(0, limit - spent)

\* the critical flag taken from the amount used instead of the amount left
IsCriticalOfUsed(tr, daily_remaining) == tr.daily_expenses <= tr.critical_threshold

\* is_critical
IsCritical(tr, daily_remaining) == daily_remaining <= tr.critical_threshold

\* the warning flag taken from the least of the daily and weekly amounts
\* left
IsWarningOfLeast(tr, daily_remaining) ==
    Min2(daily_remaining, Remaining(tr.weekly_budget, tr.weekly_expenses))
        <= tr.warning_threshold

\* is_warning
IsWarning(tr, daily_remaining) == daily_remaining <= tr.warning_threshold

\* the status mapping built by check_budget_status
BuildStatus(tr) ==
    LET daily_remaining == Remaining(tr.daily_budget, tr.daily_expenses)
        weekly_remaining == Remaining(tr.weekly_budget, tr.weekly_expenses)
        monthly_remaining == Remaining(tr.monthly_budget, tr.monthly_expenses)
    IN  [daily_remaining |-> daily_remaining,
         weekly_remaining |-> weekly_remaining,
         monthly_remaining |-> monthly_remaining,
         daily_used |-> tr.daily_expenses,
         weekly_used |-> tr.weekly_expenses,
         monthly_used |-> tr.monthly_expenses,
         is_warning |-> IsWarning(tr, daily_remaining),
         is_critical |-> IsCritical(tr, daily_remaining),
         remaining |-> Min2(daily_remaining,
                            Min2(weekly_remaining, monthly_remaining))]

\* a status built before the rollover check instead of after it
CheckBudgetStatusStale(tr, t1, t2) ==
    [tracker |-> UpdatePeriods(tr, t1, t2), status |-> BuildStatus(tr)]

\* BudgetTracker.check_budget_status: the tracker it leaves and the status
\* it returns
CheckBudgetStatusFn(tr, t1, t2) ==
    LET tr1 == UpdatePeriods(tr, t1, t2)
    IN  [tracker |-> tr1, status |-> BuildStatus(tr1)]

\* BudgetTracker.can_afford
CanAffordFn(tr, estimated_cost, t1, t2) ==
    LET r == CheckBudgetStatusFn(tr, t1, t2)
    IN  [tracker |-> r.tracker, ret |-> r.status.remaining >= estimated_cost]

RECURSIVE SumCost(_)
\* sum(expense.cost for expense in expenses)
SumCost(expenses) ==
    IF expenses = <<>> THEN 0 ELSE Head(expenses).cost + SumCost(Tail(expenses))

\* BudgetTracker.get_total_expenses
GetTotalExpenses(tr) == SumCost(tr.expenses)

\* timedelta(days=1), timedelta(weeks=1) and timedelta(days=30), in slots
Timedelta(period) ==
    CASE period = "day" -> Calendar.slots_per_day
      [] period = "week" -> 7 * Calendar.slots_per_day
      [] period = "month" -> 30 * Calendar.slots_per_day

\* a history that drops from the ledger what it does not return
GetExpenseHistoryPrunes(tr, period, now) ==
    LET kept == IF period \in {"day", "week", "month"}
                THEN SelectSeq(tr.expenses,
                               LAMBDA expense :
                                   expense.timestamp >= now - Timedelta(period))
                ELSE tr.expenses
    IN  [tracker |-> [tr EXCEPT !.expenses = kept], ret |-> kept]

\* a history cut at the calendar anchors instead of a rolling window
GetExpenseHistoryOfCalendar(tr, period, now) ==
    LET since == CASE period = "day" -> tr.current_day * Calendar.slots_per_day
                   [] period = "week" -> tr.current_week
                   [] period = "month" -> tr.current_month * Calendar.slots_per_day
                   [] OTHER -> 0
    IN  [tracker |-> tr,
         ret |-> IF period \in {"day", "week", "month"}
                 THEN SelectSeq(tr.expenses,
                                LAMBDA expense : expense.timestamp >= since)
                 ELSE tr.expenses]

\* BudgetTracker.get_expense_history: the tracker it leaves and the list it
\* returns; now is its read of the clock.  For a period that is none of
\* the three the cutoff is datetime.min, which no timestamp precedes
GetExpenseHistoryFn(tr, period, now) ==
    [tracker |-> tr,
     ret |-> IF period \in {"day", "week", "month"}
             THEN SelectSeq(tr.expenses,
                            LAMBDA expense :
                                expense.timestamp >= now - Timedelta(period))
             ELSE tr.expenses]

\* the period arguments of get_expense_history: the three it knows, its
\* default, and one it does not know
HistoryPeriods == {"day", "week", "month", "all", "year"}

\* a reset that empties the ledger and keeps the counters
ResetBudgetsKeepsCounters(tr, t1, t2, t3) ==
    [tr EXCEPT !.expenses = <<>>,
               !.current_day = Day(t1),
               !.current_week = GetWeekStart(t2),
               !.current_month = MonthStart(t3)]

\* BudgetTracker.reset_budgets
ResetBudgetsFn(tr, t1, t2, t3) ==
    [tr EXCEPT !.expenses = <<>>,
               !.daily_expenses = 0,
               !.weekly_expenses = 0,
               !.monthly_expenses = 0,
               !.current_day = Day(t1),
               !.current_week = GetWeekStart(t2),
               !.current_month = MonthStart(t3)]

\* budget sections of the small configurations: limits that two expenses
\* can exhaust and overspend
BudgetConfigs ==
    {[daily_limit |-> 2, weekly_limit |-> 1, monthly_limit |-> 1,
      warning_threshold |-> 1, critical_threshold |-> 0]}

Costs == 0..MaxCost

\* the threads that share one tracker, and a thread that is in no call
Callers == {"a", "b"}

Idle == [op |-> "idle"]

NoCallers == [c \in Callers |-> Idle]

\* -------------------------------------------------- tracker operations
RecordExpenseAt(cost, model_type, t1, t2, t3) ==
    /\ Len(tracker.expenses) < MaxLedger
    /\ tracker' = RecordExpenseFn(tracker, cost, model_type, t1, t2, t3)
    /\ clock' = t3
    /\ UNCHANGED <<config, models, request, selected, history, routing_history, callers>>

RecordExpense(cost) ==
    \E t2 \in NowAfter(clock, clock) : \E t3 \in NowAfter(clock, t2) :
        RecordExpenseAt(cost, "unknown", clock, t2, t3)

CheckBudgetStatusAt(t1, t2) ==
    /\ tracker' = CheckBudgetStatusFn(tracker, t1, t2).tracker
    /\ clock' = t2
    /\ UNCHANGED <<config, models, request, selected, history, routing_history, callers>>

CheckBudgetStatus ==
    \E t2 \in NowAfter(clock, clock) : CheckBudgetStatusAt(clock, t2)

CanAffordAt(estimated_cost, t1, t2) ==
    /\ tracker' = CanAffordFn(tracker, estimated_cost, t1, t2).tracker
    /\ clock' = t2
    /\ UNCHANGED <<config, models, request, selected, history, routing_history, callers>>

CanAfford(estimated_cost) ==
    \E t2 \in NowAfter(clock, clock) : CanAffordAt(estimated_cost, clock, t2)

ResetBudgets ==
    \E t2 \in NowAfter(clock, clock) : \E t3 \in NowAfter(clock, t2) :
        /\ tracker' = ResetBudgetsFn(tracker, clock, t2, t3)
        /\ clock' = t3
        /\ UNCHANGED <<config, models, request, selected, history, routing_history, callers>>

\* time passes between two calls
ClockAdvance ==
    /\ clock < MaxClock
    /\ clock' = clock + 1
    /\ UNCHANGED <<config, models, request, selected, tracker, history,
                   routing_history, callers>>

\* a tracker constructed at any time of the window's first day
InitTracker ==
    /\ config \in {[models |-> DefaultModels, budget |-> b] : b \in BudgetConfigs}
    /\ models = InitializeModels(config)
    /\ request = NoRequest
    /\ selected = NoSelection
    /\ history = <<>>
    /\ routing_history = <<>>
    /\ callers = NoCallers
    /\ \E t1 \in 0..(Calendar.slots_per_day - 1) :
       \E t2 \in NowAfter(t1, t1) : \E t3 \in NowAfter(t1, t2) :
        /\ tracker = NewTracker(config, t1, t2, t3)
        /\ clock = t3

NextTracker ==
    \/ \E cost \in Costs : RecordExpense(cost)
    \/ CheckBudgetStatus
    \/ \E c \in Costs : CanAfford(c)
    \/ ResetBudgets
    \/ ClockAdvance

SpecTracker == InitTracker /\ [][NextTracker]_vars

\* the scenario of section 8: daily_limit 10, warning_threshold 2,
\* critical_threshold 0.5, the weekly and monthly limits left to their
\* defaults
ScenarioBudget ==
    [daily_limit |-> 20000, warning_threshold |-> 4000,
     critical_threshold |-> 1000]

\* expenses of 9.51, 9.6, 4.8 and 0.09
ScenarioCosts == {19020, 19200, 9600, 180}

InitScenario ==
    /\ config = [models |-> DefaultModels, budget |-> ScenarioBudget]
    /\ models = InitializeModels(config)
    /\ request = NoRequest
    /\ selected = NoSelection
    /\ history = <<>>
    /\ routing_history = <<>>
    /\ callers = NoCallers
    /\ \E t1 \in 0..(Calendar.slots_per_day - 1) :
       \E t2 \in NowAfter(t1, t1) : \E t3 \in NowAfter(t1, t2) :
        /\ tracker = NewTracker(config, t1, t2, t3)
        /\ clock = t3

NextScenario ==
    \/ \E cost \in ScenarioCosts : RecordExpense(cost)
    \/ CheckBudgetStatus
    \/ ClockAdvance

SpecScenario == InitScenario /\ [][NextScenario]_vars

\* ------------------------------------------------- selector operations
SelectModel ==
    /\ request.op = "select_model"
    /\ selected = NoSelection
    /\ selected' = SelectModelFn(config, models, request.complexity,
                               request.budget_status)
    /\ UNCHANGED <<config, models, request, tracker, clock, history,
                   routing_history, callers>>

\* a selector constructed from any configuration, and one call's arguments
InitSelector ==
    /\ config \in {[models |-> m, thresholds |-> th] :
                      m \in ModelsConfigs, th \in ThresholdsConfigs}
    /\ models = InitializeModels(config)
    /\ request \in {[op |-> "select_model", complexity |-> c, budget_status |-> b] :
                       c \in ComplexityValues, b \in BudgetStatuses}
    /\ selected = NoSelection
    /\ history = <<>>
    /\ routing_history = <<>>
    /\ callers = NoCallers
    /\ tracker = NewTracker(config, 0, 0, 0)
    /\ clock = 0

NextSelector == SelectModel

SpecSelector == InitSelector /\ [][NextSelector]_vars

\* ---------------------------------------------------- ComplexityScorer
\* A description is the sequence of its words; a punctuation mark is an
\* element of its own, written in the text without a space before it.
\* Numbers are counted in tenths (the word count 26 is 260, the rate 0.5 is
\* 5), normalized feature values and weights in hundredths.  A score is
\* represented by the least whole tenth that is not below it, which keeps
\* every comparison score > threshold with a threshold in whole tenths.
Punctuation == {".", "!", "?"}

\* str.lower() on a word
Lower(word) ==
    CASE word = "Open" -> "open"
      [] word = "Copy" -> "copy"
      [] word = "Then" -> "then"
      [] OTHER -> word

\* description.lower()
LowerText(description) == [i \in DOMAIN description |-> Lower(description[i])]

\* keyword in description, for a keyword of one or more words
Contains(description, keyword) ==
    \E i \in 1..(Len(description) - Len(keyword) + 1) :
        SubSeq(description, i, i + Len(keyword) - 1) = keyword

\* re.search of a pattern w1.*w2.*...: the words occur in this order
RECURSIVE SearchFrom(_, _, _)
SearchFrom(description, pattern, start) ==
    IF pattern = <<>> THEN TRUE
    ELSE \E i \in start..Len(description) :
            /\ description[i] = Head(pattern)
            /\ SearchFrom(description, Tail(pattern), i + 1)

\* any(keyword in description for keyword in keywords)
AnyKeyword(description, keywords) ==
    \E k \in keywords : Contains(description, k)

\* len(description.split())
WordCount(description) ==
    Cardinality({i \in DOMAIN description : description[i] \notin Punctuation})
    + (IF description # <<>> /\ description[1] \in Punctuation THEN 1 ELSE 0)

\* ComplexityScorer._count_apps
CountApps(description) ==
    Cardinality({app \in {"chrome", "word", "excel", "notepad", "calculator",
                          "outlook", "explorer", "paint", "powerpoint"} :
                    Contains(description, <<app>>)})

\* ComplexityScorer._has_inter_app_dependency
HasInterAppDependency(description) ==
    \E pattern \in {<<"from", "to">>, <<"copy", "from", "to">>,
                    <<"import", "into">>, <<"export", "from", "to">>,
                    <<"search", "and", "create">>} :
        SearchFrom(description, pattern, 1)

\* ComplexityScorer._requires_text_processing
RequiresTextProcessing(description) ==
    AnyKeyword(description,
        {<<"edit">>, <<"format">>, <<"bold">>, <<"italic">>, <<"underline">>,
         <<"align">>, <<"paragraph">>, <<"font">>, <<"style">>})

\* ComplexityScorer._requires_navigation
RequiresNavigation(description) ==
    AnyKeyword(description,
        {<<"open">>, <<"close">>, <<"navigate">>, <<"go", "to">>, <<"click">>,
         <<"select">>, <<"find">>, <<"search">>, <<"browse">>})

\* ComplexityScorer._requires_data_manipulation
RequiresDataManipulation(description) ==
    AnyKeyword(description,
        {<<"calculate">>, <<"sum">>, <<"average">>, <<"sort">>, <<"filter">>,
         <<"analyze">>, <<"graph">>, <<"chart">>, <<"formula">>, <<"function">>})

\* ComplexityScorer._estimate_step_count: the pieces re.split leaves, one
\* more than the runs of punctuation, or the action verbs if there are more
EstimateStepCount(description) ==
    LET runs == {i \in DOMAIN description :
                    /\ description[i] \in Punctuation
                    /\ (i = 1 \/ description[i - 1] \notin Punctuation)}
        steps == Cardinality(runs) + 1
        verb_count ==
            Cardinality({verb \in {"click", "type", "open", "close", "save",
                                   "create", "delete", "move", "copy", "paste"} :
                            Contains(description, <<verb>>)})
    IN  Max2(steps, verb_count)

\* ComplexityScorer._has_conditional_logic
HasConditionalLogic(description) ==
    AnyKeyword(description,
        {<<"if">>, <<"then">>, <<"else">>, <<"when">>, <<"unless">>,
         <<"depending", "on">>, <<"based", "on">>, <<"condition">>})

\* the values found in features and contexts
IntValue(n) == [type |-> "int", v |-> 10 * n]

FloatValue(tenths) == [type |-> "float", v |-> tenths]

BoolValue(b) == [type |-> "bool", v |-> b]

StrValue == [type |-> "str", v |-> "n/a"]

\* the largest finite float, on the scale of the model
FloatMax == 1000000

\* an int that no float can hold, such as 10**400
HugeInt == [type |-> "int", v |-> 2 * FloatMax]

ContextKeys == {"historical_success_rate", "similar_tasks_complexity",
                "user_skill_level"}

\* context.get(key, 0.5)
DefaultContextValue == FloatValue(5)

\* a context that is a non-empty mapping
Truthy(context) == context # None /\ context # EmptyDict

\* ComplexityScorer._extract_features
ExtractFeatures(description, context) ==
    LET description_lower == LowerText(description)
        features ==
            [word_count |-> IntValue(WordCount(description)),
             app_count |-> IntValue(CountApps(description_lower)),
             has_inter_app_dependency |->
                 BoolValue(HasInterAppDependency(description_lower)),
             requires_text_processing |->
                 BoolValue(RequiresTextProcessing(description_lower)),
             requires_navigation |->
                 BoolValue(RequiresNavigation(description_lower)),
             requires_data_manipulation |->
                 BoolValue(RequiresDataManipulation(description_lower)),
             step_count_estimate |->
                 IntValue(EstimateStepCount(description_lower)),
             has_conditional_logic |->
                 BoolValue(HasConditionalLogic(description_lower))]
    IN  IF Truthy(context)
        THEN [k \in DOMAIN features \cup ContextKeys |->
                 IF k \in ContextKeys
                 THEN Get(context, k, DefaultContextValue)
                 ELSE features[k]]
        ELSE features

\* default_weights of _calculate_weighted_score
DefaultWeights ==
    [word_count |-> 10, app_count |-> 20, has_inter_app_dependency |-> 30,
     requires_text_processing |-> 15, requires_navigation |-> 10,
     requires_data_manipulation |-> 20, step_count_estimate |-> 15,
     has_conditional_logic |-> 25, historical_success_rate |-> 20]

\* {**default_weights, **self.weights}
Weights(cfg) ==
    LET configured == Get(cfg, "complexity_weights", EmptyDict)
    IN  [k \in DOMAIN DefaultWeights \cup DOMAIN configured |->
            IF k \in DOMAIN configured THEN configured[k] ELSE DefaultWeights[k]]

\* an int beyond the floats: converting it raises OverflowError
BeyondFloat(value) ==
    value.type = "int" /\ (value.v > FloatMax \/ value.v < -FloatMax)

\* ComplexityScorer._normalize_feature, in hundredths; raised when the
\* arithmetic on the value raises OverflowError (in value / n and
\* 1.0 - value, or in the product with the weight when min returns the int)
NormalizeFeature(feature_name, value) ==
    IF value.type = "bool"
    THEN [raised |-> FALSE, value |-> IF value.v THEN 100 ELSE 0]
    ELSE IF value.type \in {"int", "float"}
    THEN IF feature_name = "word_count"
         THEN [raised |-> BeyondFloat(value), value |-> Min2(value.v \div 5, 100)]
         ELSE IF feature_name = "app_count"
         THEN [raised |-> BeyondFloat(value), value |-> Min2(value.v * 2, 100)]
         ELSE IF feature_name = "step_count_estimate"
         THEN [raised |-> BeyondFloat(value), value |-> Min2(value.v \div 2, 100)]
         ELSE IF feature_name = "historical_success_rate"
         THEN [raised |-> BeyondFloat(value), value |-> 100 - 10 * value.v]
         ELSE [raised |-> BeyondFloat(value) /\ value.v < 0,
               value |-> Min2(10 * value.v, 100)]
    ELSE [raised |-> FALSE, value |-> 50]

RECURSIVE SumOver(_, _)
\* the sum of f[k] over the keys k of a set
SumOver(f, keys) ==
    IF keys = {} THEN 0
    ELSE LET k == CHOOSE x \in keys : TRUE
         IN  f[k] + SumOver(f, keys \ {k})

\* ComplexityScorer._calculate_weighted_score: the score as the fraction
\* num / den
CalculateWeightedScore(cfg, features) ==
    LET weights == Weights(cfg)
        used == DOMAIN weights \cap DOMAIN features
        normalized == [k \in used |-> NormalizeFeature(k, features[k])]
        score == SumOver([k \in used |-> normalized[k].value * weights[k]], used)
        total_weight == SumOver([k \in used |-> weights[k]], used)
    IN  [raised |-> \E k \in used : normalized[k].raised,
         num |-> score,
         den |-> IF total_weight > 0 THEN 100 * total_weight ELSE 10000]

\* the scores, in ten-thousandths, at which 1 / (1 + exp(-10 (x - 0.5)))
\* passes 0.1, 0.2, ..., 0.9
SigmoidInverse == <<2803, 3614, 4153, 4595, 5000, 5405, 5847, 6386, 7197>>

\* ComplexityScorer._sigmoid_normalize
SigmoidNormalize(num, den) ==
    1 + Cardinality({k \in DOMAIN SigmoidInverse :
                        num * 10000 > SigmoidInverse[k] * den})

\* max(0.0, min(1.0, normalized_score))
Clip(score) == Max2(0, Min2(10, score))

\* the record calculate_complexity stores
ScoringRecord(description, features, score, context) ==
    [description |-> description, features |-> features, score |-> score,
     context |-> context]

\* ComplexityScorer.calculate_complexity: the history it leaves and the
\* score it returns, or the exception it raises
CalculateComplexityFn(cfg, hist, task_description, context) ==
    LET features == ExtractFeatures(task_description, context)
        score == CalculateWeightedScore(cfg, features)
        normalized_score == Clip(SigmoidNormalize(score.num, score.den))
    IN  IF score.raised
        THEN [raised |-> TRUE, score |-> None, history |-> hist]
        ELSE [raised |-> FALSE, score |-> normalized_score,
              history |-> Append(hist, ScoringRecord(task_description, features,
                                                     normalized_score, context))]

\* the history limit of update_model_performance
HistoryLimit == 1000

\* history[-1000:] taken from the other end
KeepOldest(hist, n) == SubSeq(hist, 1, n)

\* history[-n:]
KeepRecent(hist, n) == SubSeq(hist, Max2(1, Len(hist) - n + 1), Len(hist))

\* ComplexityScorer.update_model_performance
UpdateModelPerformanceFn(hist, task_description, model_type, success) ==
    IF Len(hist) > HistoryLimit THEN KeepRecent(hist, HistoryLimit) ELSE hist

\* descriptions: "", "Open notepad", "if it is from excel to word",
\* "sort it if it is from excel to word" and "Copy the chart from excel to
\* word. Then format it if the sum is bold"
Descriptions ==
    {<<>>,
     <<"Open", "notepad">>,
     <<"if", "it", "is", "from", "excel", "to", "word">>,
     <<"sort", "it", "if", "it", "is", "from", "excel", "to", "word">>,
     <<"Copy", "the", "chart", "from", "excel", "to", "word", ".",
       "Then", "format", "it", "if", "the", "sum", "is", "bold">>}

\* values of a context key: rates inside and outside [0,1], an int, a
\* string, a bool and an int beyond the floats
ContextValues ==
    {FloatValue(0), FloatValue(10), FloatValue(-50), FloatValue(50),
     IntValue(1), StrValue, BoolValue(TRUE), HugeInt}

\* contexts: absent, empty, with the success rate, and without it
Contexts ==
    {None, EmptyDict}
    \cup {[k \in {"historical_success_rate"} |-> v] : v \in ContextValues}
    \cup {[k \in {"user_skill_level"} |-> FloatValue(10)]}

\* the configuration of a scorer with the default weights
ScorerConfig == [models |-> DefaultModels]

\* the records that calculate_complexity("if it is from excel to word") and
\* calculate_complexity("Open notepad") append
FilledRecord ==
    [k \in 1..2 |->
        LET task_description ==
                IF k = 2 THEN <<"Open", "notepad">>
                ELSE <<"if", "it", "is", "from", "excel", "to", "word">>
        IN  CalculateComplexityFn(ScorerConfig, <<>>, task_description,
                                  None).history[1]]

\* the history n calls of calculate_complexity leave, the two descriptions
\* taking turns
Filled(n) == [i \in 1..n |-> FilledRecord[2 - (i % 2)]]

\* --------------------------------------------------- scorer operations
NoScore == [op |-> "none"]

CalculateComplexity ==
    /\ request.op = "calculate_complexity"
    /\ selected = NoScore
    /\ LET r == CalculateComplexityFn(config, history, request.task_description,
                                      request.context)
       IN  /\ history' = r.history
           /\ selected' = [raised |-> r.raised, score |-> r.score]
    /\ UNCHANGED <<config, models, request, tracker, clock, routing_history, callers>>

UpdateModelPerformance ==
    /\ \E model_type \in Tiers : \E success \in BOOLEAN :
          history' = UpdateModelPerformanceFn(history, request.task_description,
                                              model_type, success)
    /\ UNCHANGED <<config, models, request, selected, tracker, clock,
                   routing_history, callers>>

\* a scorer that has scored none or about HistoryLimit descriptions, and
\* the arguments of its next call
InitScorer ==
    /\ config = ScorerConfig
    /\ models = InitializeModels(config)
    /\ request \in {[op |-> "calculate_complexity", task_description |-> d,
                     context |-> c] : d \in Descriptions, c \in Contexts}
    /\ selected = NoScore
    /\ history \in {Filled(n) :
                       n \in {0} \cup ((HistoryLimit - 1)..(HistoryLimit + 1))}
    /\ routing_history = <<>>
    /\ callers = NoCallers
    /\ tracker = NewTracker(config, 0, 0, 0)
    /\ clock = 0

NextScorer ==
    \/ CalculateComplexity
    \/ UpdateModelPerformance

SpecScorer == InitScorer /\ [][NextScorer]_vars

\* --------------------------------------------------------- RouterAgent
\* ModelSelector.get_model_cost
GetModelCost(cfg, model_type) ==
    Get(Get(Get(cfg, "models", EmptyDict), model_type, EmptyDict),
        "cost_per_1k_tokens", 0)

\* the entry select_model appends to routing_history (its 'subtask', the
\* first 50 characters of the description, is kept for display only and is
\* left out)
RoutingDecision(complexity, model_type, budget_remaining) ==
    [complexity |-> complexity, model_type |-> model_type,
     budget_remaining |-> budget_remaining]

\* RouterAgent.select_model: what it returns or raises, and the scorer
\* history, tracker and routing history it leaves; t1 and t2 are the reads
\* of the clock of its status check
RouterSelectModelFn(cfg, ms, hist, tr, decisions, description, context, t1, t2) ==
    LET scored == CalculateComplexityFn(cfg, hist, description, context)
        checked == CheckBudgetStatusFn(tr, t1, t2)
        chosen == SelectModelFn(cfg, ms, scored.score, checked.status)
    IN  IF scored.raised
        THEN [raised |-> TRUE, model_type |-> "OverflowError", client |-> None,
              complexity |-> None, history |-> hist, tracker |-> tr,
              routing_history |-> decisions, now |-> t1]
        ELSE IF chosen.raised
        THEN [raised |-> TRUE, model_type |-> chosen.model_type, client |-> None,
              complexity |-> None, history |-> scored.history,
              tracker |-> checked.tracker, routing_history |-> decisions,
              now |-> t2]
        ELSE [raised |-> FALSE, model_type |-> chosen.model_type,
              client |-> chosen.client, complexity |-> scored.score,
              history |-> scored.history, tracker |-> checked.tracker,
              routing_history |->
                  Append(decisions,
                         RoutingDecision(scored.score, chosen.model_type,
                                         checked.status.remaining)),
              now |-> t2]

\* an update that records a rule-based execution like any other
ExpenseOfNoTier(model_type) == TRUE

\* the test of update_routing_performance: model_type != "rule"
ExpenseOfTier(model_type) == model_type # "rule"

\* RouterAgent.update_routing_performance: the scorer history and the
\* tracker it leaves
UpdateRoutingPerformanceFn(cfg, hist, tr, description, model_type, success, t1, t2, t3) ==
    [history |-> UpdateModelPerformanceFn(hist, description, model_type, success),
     tracker |-> IF ExpenseOfTier(model_type)
                 THEN RecordExpenseFn(tr, GetModelCost(cfg, model_type),
                                      "unknown", t1, t2, t3)
                 ELSE tr,
     now |-> IF ExpenseOfTier(model_type) THEN t3 ELSE t1]

\* most routing decisions of a run
MaxRouted == 2

\* configurations of a router: per-unit costs 0.001 and 0.0005 for premium
\* and mid, none configured for open; premium enabled or not
RouterConfigs ==
    {[models |-> [premium |-> [enabled |-> e, cost_per_1k_tokens |-> 2],
                  mid |-> [enabled |-> TRUE, cost_per_1k_tokens |-> 1],
                  open |-> [enabled |-> TRUE],
                  rule |-> [enabled |-> TRUE, cost_per_1k_tokens |-> 0]],
      budget |-> [daily_limit |-> 3, weekly_limit |-> 4, monthly_limit |-> 4,
                  warning_threshold |-> 1, critical_threshold |-> 0]] :
        e \in BOOLEAN}

\* the descriptions and contexts handed to a router
RouterDescriptions ==
    {<<"Open", "notepad">>,
     <<"Copy", "the", "chart", "from", "excel", "to", "word", ".",
       "Then", "format", "it", "if", "the", "sum", "is", "bold">>}

RouterContexts == {None, [k \in {"historical_success_rate"} |-> HugeInt]}

\* ---------------------------------------------------- router operations
RouterSelectModelAt(description, context, t1, t2) ==
    /\ Len(history) < MaxRouted
    /\ LET r == RouterSelectModelFn(config, models, history, tracker,
                                    routing_history, description, context, t1, t2)
       IN  /\ history' = r.history
           /\ tracker' = r.tracker
           /\ routing_history' = r.routing_history
           /\ clock' = r.now
    /\ UNCHANGED <<config, models, request, selected, callers>>

RouterSelectModel(description, context) ==
    \E t2 \in NowAfter(clock, clock) :
        RouterSelectModelAt(description, context, clock, t2)

UpdateRoutingPerformanceAt(description, model_type, success, t1, t2, t3) ==
    /\ Len(tracker.expenses) < MaxLedger
    /\ LET r == UpdateRoutingPerformanceFn(config, history, tracker, description,
                                           model_type, success, t1, t2, t3)
       IN  /\ history' = r.history
           /\ tracker' = r.tracker
           /\ clock' = r.now
    /\ UNCHANGED <<config, models, request, selected, routing_history, callers>>

UpdateRoutingPerformance(description, model_type, success) ==
    \E t2 \in NowAfter(clock, clock) : \E t3 \in NowAfter(clock, t2) :
        UpdateRoutingPerformanceAt(description, model_type, success, clock, t2, t3)

\* a router is constructed on the last day of the calendar window
RouterStart == MaxDay * Calendar.slots_per_day

\* a router constructed at any time of that day
InitRouter ==
    /\ config \in RouterConfigs
    /\ models = InitializeModels(config)
    /\ request = NoRequest
    /\ selected = NoSelection
    /\ history = <<>>
    /\ routing_history = <<>>
    /\ callers = NoCallers
    /\ \E t1 \in RouterStart..(RouterStart + Calendar.slots_per_day - 1) :
       \E t2 \in NowAfter(t1, t1) : \E t3 \in NowAfter(t1, t2) :
        /\ tracker = NewTracker(config, t1, t2, t3)
        /\ clock = t3

NextRouter ==
    \/ \E d \in RouterDescriptions : \E c \in RouterContexts :
          RouterSelectModel(d, c)
    \/ \E d \in RouterDescriptions : \E t \in Tiers : \E success \in BOOLEAN :
          UpdateRoutingPerformance(d, t, success)
    \/ ClockAdvance

SpecRouter == InitRouter /\ [][NextRouter]_vars

\* ============================================================ claims
\* ------------------------------------------- concurrent tracker callers
\* Threads that share one tracker run its methods statement by statement:
\* nothing in budget_tracker.py holds a lock, so a thread can be suspended
\* between any two reads or writes of the tracker's attributes, and the
\* clock can advance while it is.  A caller is the record of one thread:
\* the method it is in (op), the statement it is at (pc) with the period
\* the statement is about (p: 1 the day, 2 the week, 3 the month), and its
\* locals (cost, now, value).

\* today, week_start and month_start of _update_periods
PeriodOf(p, now) ==
    CASE p = 1 -> Day(now)
      [] p = 2 -> GetWeekStart(now)
      [] p = 3 -> MonthStart(now)

\* self.current_day, self.current_week, self.current_month
AnchorOf(tr, p) ==
    CASE p = 1 -> tr.current_day
      [] p = 2 -> tr.current_week
      [] p = 3 -> tr.current_month

\* self.daily_expenses, self.weekly_expenses, self.monthly_expenses
CounterOf(tr, p) ==
    CASE p = 1 -> tr.daily_expenses
      [] p = 2 -> tr.weekly_expenses
      [] p = 3 -> tr.monthly_expenses

\* a store to one of the three counters
SetCounter(tr, p, v) ==
    CASE p = 1 -> [tr EXCEPT !.daily_expenses = v]
      [] p = 2 -> [tr EXCEPT !.weekly_expenses = v]
      [] p = 3 -> [tr EXCEPT !.monthly_expenses = v]

\* a store to one of the three anchors
SetAnchor(tr, p, v) ==
    CASE p = 1 -> [tr EXCEPT !.current_day = v]
      [] p = 2 -> [tr EXCEPT !.current_week = v]
      [] p = 3 -> [tr EXCEPT !.current_month = v]

\* an addition that counts the cost twice
InplaceAddTwice(value, cost) == value + cost + cost

\* the value that += stores: the value it loaded, plus the cost
InplaceAdd(value, cost) == value + cost

\* the callers of record_expense that have not appended their record yet
Pending ==
    {c \in Callers : callers[c].op = "record_expense"
                     /\ callers[c].pc \in {"test", "reset", "anchor", "append"}}

\* a thread calls record_expense(cost) or check_budget_status(); the
\* threads record as many expenses as there are threads
Enter(c, op, cost) ==
    /\ callers[c].op = "idle"
    /\ op = "record_expense" =>
           Len(tracker.expenses) + Cardinality(Pending) < Cardinality(Callers)
    /\ callers' = [callers EXCEPT ![c] =
                      [op |-> op, pc |-> "test", p |-> 1, cost |-> cost,
                       now |-> clock, value |-> 0]]
    /\ UNCHANGED <<config, models, request, selected, tracker, clock, history,
                   routing_history>>

\* the statement after the block of period p in _update_periods: the next
\* block, then the append of record_expense, or the return of
\* check_budget_status with the status built from the attributes
AfterPeriod(caller) ==
    IF caller.p < 3
    THEN [caller EXCEPT !.pc = "test", !.p = @ + 1]
    ELSE IF caller.op = "record_expense"
         THEN [caller EXCEPT !.pc = "append"]
         ELSE Idle

\* the test of a block of _update_periods: the day block reads the clock
\* into now, the week block reads it again in _get_week_start, the month
\* block uses the day block's now
TestPeriod(c) ==
    /\ callers[c].op # "idle"
    /\ callers[c].pc = "test"
    /\ LET caller == callers[c]
           now == IF caller.p = 3 THEN caller.now ELSE clock
           value == PeriodOf(caller.p, now)
           read == [caller EXCEPT !.now = IF caller.p = 1 THEN clock ELSE @,
                                  !.value = value]
       IN  callers' = [callers EXCEPT ![c] =
                          IF value # AnchorOf(tracker, caller.p)
                          THEN [read EXCEPT !.pc = "reset"]
                          ELSE AfterPeriod(read)]
    /\ UNCHANGED <<config, models, request, selected, tracker, clock, history,
                   routing_history>>

\* self.daily_expenses = 0.0, and the same store of the other blocks
ResetCounter(c) ==
    /\ callers[c].op # "idle"
    /\ callers[c].pc = "reset"
    /\ tracker' = SetCounter(tracker, callers[c].p, 0)
    /\ callers' = [callers EXCEPT ![c].pc = "anchor"]
    /\ UNCHANGED <<config, models, request, selected, clock, history,
                   routing_history>>

\* self.current_day = today, and the same store of the other blocks
MoveAnchor(c) ==
    /\ callers[c].op # "idle"
    /\ callers[c].pc = "anchor"
    /\ tracker' = SetAnchor(tracker, callers[c].p, callers[c].value)
    /\ callers' = [callers EXCEPT ![c] = AfterPeriod(@)]
    /\ UNCHANGED <<config, models, request, selected, clock, history,
                   routing_history>>

\* self.expenses.append(expense), the record stamped with a read of the
\* clock
AppendExpense(c) ==
    /\ callers[c].op = "record_expense"
    /\ callers[c].pc = "append"
    /\ tracker' = [tracker EXCEPT !.expenses =
                      Append(@, ExpenseRecord(clock, "unknown", callers[c].cost))]
    /\ callers' = [callers EXCEPT ![c].pc = "load", ![c].p = 1]
    /\ UNCHANGED <<config, models, request, selected, clock, history,
                   routing_history>>

\* the read of the counter in self.daily_expenses += cost, and in the two
\* += that follow it
LoadCounter(c) ==
    /\ callers[c].op = "record_expense"
    /\ callers[c].pc = "load"
    /\ callers' = [callers EXCEPT ![c].pc = "store",
                                  ![c].value = CounterOf(tracker, callers[c].p)]
    /\ UNCHANGED <<config, models, request, selected, tracker, clock, history,
                   routing_history>>

\* the write of the counter in self.daily_expenses += cost, and in the two
\* += that follow it; record_expense returns after the third
StoreCounter(c) ==
    /\ callers[c].op = "record_expense"
    /\ callers[c].pc = "store"
    /\ tracker' = SetCounter(tracker, callers[c].p,
                             InplaceAdd(callers[c].value, callers[c].cost))
    /\ callers' = [callers EXCEPT ![c] =
                      IF @.p < 3 THEN [@ EXCEPT !.pc = "load", !.p = @ + 1]
                      ELSE Idle]
    /\ UNCHANGED <<config, models, request, selected, clock, history,
                   routing_history>>

\* a shared tracker is constructed on the last day but one of the calendar
\* window
SharedStart == (MaxDay - 1) * Calendar.slots_per_day

\* a tracker constructed at any time of that day, and no thread in a call
InitShared ==
    /\ config \in {[models |-> DefaultModels, budget |-> b] : b \in BudgetConfigs}
    /\ models = InitializeModels(config)
    /\ request = NoRequest
    /\ selected = NoSelection
    /\ history = <<>>
    /\ routing_history = <<>>
    /\ callers = NoCallers
    /\ \E t1 \in SharedStart..(SharedStart + Calendar.slots_per_day - 1) :
       \E t2 \in NowAfter(t1, t1) : \E t3 \in NowAfter(t1, t2) :
        /\ tracker = NewTracker(config, t1, t2, t3)
        /\ clock = t3

NextShared ==
    \/ \E c \in Callers : \E cost \in Costs \ {0} :
           Enter(c, "record_expense", cost)
    \/ \E c \in Callers : Enter(c, "check_budget_status", 0)
    \/ \E c \in Callers : TestPeriod(c)
    \/ \E c \in Callers : ResetCounter(c)
    \/ \E c \in Callers : MoveAnchor(c)
    \/ \E c \in Callers : AppendExpense(c)
    \/ \E c \in Callers : LoadCounter(c)
    \/ \E c \in Callers : StoreCounter(c)
    \/ ClockAdvance

SpecShared == InitShared /\ [][NextShared]_vars

\* ------------------------------------------------------ fallback chain
\* self.fallback_order of ModelSelector.__init__: the list the
\* configuration holds, or an empty one
FallbackOrder(cfg) ==
    Get(Get(cfg, "fallback", EmptyDict), "fallback_order", <<>>)

\* the elements of a list
Elements(order) == {order[i] : i \in 1..Len(order)}

\* list.index: the position of the first occurrence
Index(order, x) ==
    CHOOSE i \in 1..Len(order) :
        order[i] = x /\ \A j \in 1..(i - 1) : order[j] # x

\* a returned tier name, as opposed to None
Some(model_type) == [none |-> FALSE, value |-> model_type]

\* ModelSelector.fallback_model
FallbackModelFn(fallback_order, current_model) ==
    IF current_model \notin Elements(fallback_order)
    THEN None
    ELSE LET current_index == Index(fallback_order, current_model)
         IN  IF current_index < Len(fallback_order)
             THEN Some(fallback_order[current_index + 1])
             ELSE None

\* the longest configured chain, and the most calls one degradation makes
MaxChain == 3

MaxWalk == 5

\* the tiers and a name that is no tier
TierNames == Tiers \cup {"gpt"}

\* fallback_order: every list of at most MaxChain names
FallbackOrders ==
    UNION {[1..n -> TierNames] : n \in 0..MaxChain}

\* the configurations of a selector with a fallback chain, and without
FallbackConfigs ==
    {[models |-> DefaultModels, fallback |-> [fallback_order |-> o]] :
        o \in FallbackOrders}
    \cup {[models |-> DefaultModels], [models |-> DefaultModels,
                                       fallback |-> EmptyDict]}

\* one call of fallback_model for the current tier of the degradation
FallbackModel ==
    /\ request.op = "fallback_model"
    /\ selected = NoSelection
    /\ selected' = [ret |-> FallbackModelFn(FallbackOrder(config),
                                            request.current_model)]
    /\ UNCHANGED <<config, models, request, tracker, clock, history,
                   routing_history, callers>>

\* the degradation loop of the caller: the tier that fallback_model
\* returned becomes the current tier, until it returns none
Degrade ==
    /\ request.op = "fallback_model"
    /\ selected # NoSelection
    /\ selected.ret # None
    /\ Len(request.visited) < MaxWalk
    /\ request' = [request EXCEPT !.current_model = selected.ret.value,
                                  !.visited = Append(@, selected.ret.value)]
    /\ selected' = NoSelection
    /\ UNCHANGED <<config, models, tracker, clock, history, routing_history,
                   callers>>

\* a selector constructed from a configuration, and the tier a degradation
\* starts from
InitFallback ==
    /\ config \in FallbackConfigs
    /\ models = InitializeModels(config)
    /\ request \in {[op |-> "fallback_model", current_model |-> t,
                     visited |-> <<t>>] : t \in TierNames}
    /\ selected = NoSelection
    /\ history = <<>>
    /\ routing_history = <<>>
    /\ callers = NoCallers
    /\ tracker = NewTracker(config, 0, 0, 0)
    /\ clock = 0

NextFallback ==
    \/ FallbackModel
    \/ Degrade

SpecFallback == InitFallback /\ [][NextFallback]_vars

\* ------------------------------------------------------ expense history
\* the times at which a tracker constructed on the window's first day is
\* called: shortly after the first midnight, and a day, a week and thirty
\* days after the last slot of the first day, to the slot and one slot
\* later
HistoryTimes ==
    {Calendar.slots_per_day}
    \cup {Calendar.slots_per_day - 1 + Timedelta(period) + k :
             period \in {"day", "week", "month"}, k \in {0, 1}}

\* time passes until one of those times
Wait(t) ==
    /\ t > clock
    /\ clock' = t
    /\ UNCHANGED <<config, models, request, selected, tracker, history,
                   routing_history, callers>>

\* BudgetTracker.get_expense_history, with the list it returns
GetExpenseHistory(period) ==
    LET r == GetExpenseHistoryFn(tracker, period, clock)
    IN  /\ tracker' = r.tracker
        /\ selected' = [op |-> "get_expense_history", period |-> period,
                        now |-> clock, ret |-> r.ret]
        /\ UNCHANGED <<config, models, request, clock, history, routing_history,
                       callers>>

\* a tracker constructed on the window's first day
InitHistory ==
    /\ config \in {[models |-> DefaultModels, budget |-> b] : b \in BudgetConfigs}
    /\ models = InitializeModels(config)
    /\ request = NoRequest
    /\ selected = NoSelection
    /\ history = <<>>
    /\ routing_history = <<>>
    /\ callers = NoCallers
    /\ \E t \in 0..(Calendar.slots_per_day - 1) :
        /\ tracker = NewTracker(config, t, t, t)
        /\ clock = t

NextHistory ==
    \/ \E t \in HistoryTimes : Wait(t)
    \/ \E x \in Costs \ {0} : RecordExpenseAt(x, "unknown", clock, clock, clock)
    \/ CheckBudgetStatusAt(clock, clock)
    \/ \E period \in HistoryPeriods : GetExpenseHistory(period)

SpecHistory == InitHistory /\ [][NextHistory]_vars

\* ------------------------------------------- PCAgentPlus._execute_subtask
\* configurations of a routed run: every non-rule tier has a positive
\* min_cost_per_call floor; premium costs more per unit than its floor;
\* thresholds that send the three descriptions to three tiers
SubtaskConfigs ==
    {[models |-> [premium |-> [enabled |-> e, cost_per_1k_tokens |-> cost,
                               min_cost_per_call |-> floor],
                  mid |-> [enabled |-> TRUE, cost_per_1k_tokens |-> 1,
                           min_cost_per_call |-> 1],
                  open |-> [enabled |-> TRUE, cost_per_1k_tokens |-> 1,
                            min_cost_per_call |-> 1],
                  rule |-> [enabled |-> TRUE, cost_per_1k_tokens |-> 0]],
      thresholds |-> [premium |-> 7, mid |-> 3, open |-> 0],
      budget |-> [daily_limit |-> limit, weekly_limit |-> 4, monthly_limit |-> 4,
                  warning_threshold |-> 1, critical_threshold |-> 0]] :
        e \in BOOLEAN, cost \in {2, 3}, floor \in {1, 2}, limit \in {2, 3}}

\* subtask descriptions of complexity 0.1, 0.4 and 0.8
SubtaskDescriptions ==
    {<<"Open", "notepad">>,
     <<"if", "it", "is", "from", "excel", "to", "word">>,
     <<"sort", "it", "if", "it", "is", "from", "excel", "to", "word">>}

\* the orchestrator between select_model and update_routing_performance
Executing(description, model_type) ==
    [op |-> "execute_subtask", description |-> description,
     model_type |-> model_type]

\* the orchestrator after a select_model that returned or raised r: an
\* exception ends the subtask in the except clause
AfterSelectModel(description, r) ==
    /\ history' = r.history
    /\ tracker' = r.tracker
    /\ routing_history' = r.routing_history
    /\ clock' = r.now
    /\ selected' = [op |-> "select_model", raised |-> r.raised,
                    ret |-> r.model_type]
    /\ request' = IF r.raised THEN NoRequest
                  ELSE Executing(description, r.model_type)

\* _execute_subtask up to the return of router_agent.select_model
SubtaskSelectModel(description) ==
    /\ request = NoRequest
    /\ Len(history) < MaxRouted
    /\ \E t2 \in NowAfter(clock, clock) :
          AfterSelectModel(description,
                           RouterSelectModelFn(config, models, history, tracker,
                                               routing_history, description,
                                               None, clock, t2))
    /\ UNCHANGED <<config, models, callers>>

\* the orchestrator after an update_routing_performance that left r
AfterUpdateRoutingPerformance(r) ==
    /\ history' = r.history
    /\ tracker' = r.tracker
    /\ clock' = r.now
    /\ request' = NoRequest

\* _execute_subtask from its call of update_routing_performance for the
\* tier select_model returned
SubtaskUpdateRoutingPerformance(success) ==
    /\ request # NoRequest
    /\ \E t2 \in NowAfter(clock, clock) : \E t3 \in NowAfter(clock, t2) :
          AfterUpdateRoutingPerformance(
              UpdateRoutingPerformanceFn(config, history, tracker,
                                         request.description, request.model_type,
                                         success, clock, t2, t3))
    /\ UNCHANGED <<config, models, selected, routing_history, callers>>

\* a router constructed on the day before the last day of the window
SubtaskStart == (MaxDay - 1) * Calendar.slots_per_day

InitSubtask ==
    /\ config \in SubtaskConfigs
    /\ models = InitializeModels(config)
    /\ request = NoRequest
    /\ selected = NoSelection
    /\ history = <<>>
    /\ routing_history = <<>>
    /\ callers = NoCallers
    /\ \E t1 \in SubtaskStart..(SubtaskStart + Calendar.slots_per_day - 1) :
        /\ tracker = NewTracker(config, t1, t1, t1)
        /\ clock = t1

NextSubtask ==
    \/ \E d \in SubtaskDescriptions : SubtaskSelectModel(d)
    \/ \E success \in BOOLEAN : SubtaskUpdateRoutingPerformance(success)
    \/ ClockAdvance

SpecSubtask == InitSubtask /\ [][NextSubtask]_vars

\* BudgetTracker.get_model_expense_breakdown: the summed cost of the
\* ledger's records under each model_type that occurs in it
GetModelExpenseBreakdown(tr) ==
    [model_type \in {tr.expenses[i].model_type : i \in DOMAIN tr.expenses} |->
        SumCost(SelectSeq(tr.expenses,
                          LAMBDA expense : expense.model_type = model_type))]

\* ------------------------------------------------ select_model's call
Called == selected # NoSelection

ReqComplexity == request.complexity

ReqCritical == Get(request.budget_status, "is_critical", FALSE)

ReqRemaining == Get(request.budget_status, "remaining", Inf)

AllTiersInstantiated == models = Tiers

OrderedThresholds ==
    /\ Thresholds(config).premium >= Thresholds(config).mid
    /\ Thresholds(config).mid >= Thresholds(config).open

\* C1: for every complexity, budget status and configuration, also one
\* where premium, mid or open is disabled or absent, select_model returns
\* without raising a tier that is a key of the instantiated catalog.
C1_ReturnsCatalogTier ==
    Called => ~selected.raised /\ selected.model_type \in models

\* C3: with all four tiers instantiated, select_model returns 'premium'
\* exactly when the budget is not critical, remaining >= premium's floor,
\* and either complexity > premium_threshold or (complexity > mid_threshold
\* and remaining < mid's floor).
C3_PremiumExactlyWhen ==
    (Called /\ AllTiersInstantiated) =>
        ((~selected.raised /\ selected.model_type = "premium")
         <=> /\ ~ReqCritical
             /\ ReqRemaining >= MinCost(config, "premium")
             /\ \/ ReqComplexity > Thresholds(config).premium
                \/ /\ ReqComplexity > Thresholds(config).mid
                   /\ ReqRemaining < MinCost(config, "mid"))

\* C3's case: the upward fallback, a complexity at or below
\* premium_threshold routed to premium because mid is not affordable
C3_Witness ==
    /\ Called /\ AllTiersInstantiated
    /\ selected.model_type = "premium"
    /\ ReqComplexity <= Thresholds(config).premium
    /\ ReqRemaining < MinCost(config, "mid")

\* C4 as claimed: for every thresholds triple, every budget status and
\* every complexity c <= open_threshold, select_model returns 'rule'
\* (stated of the calls that return; the calls that raise are C1's).
C4_RuleAtOrBelowOpen ==
    (Called /\ ~selected.raised /\ ReqComplexity <= Thresholds(config).open) =>
        selected.model_type = "rule"

\* C4 amended: for every thresholds triple with premium >= mid >= open,
\* every budget status and every complexity c <= open_threshold,
\* select_model returns 'rule'.
C4_RuleAtOrBelowOpenOrdered ==
    (Called /\ OrderedThresholds /\ ReqComplexity <= Thresholds(config).open) =>
        (~selected.raised /\ selected.model_type = "rule")

\* C4's case: a complexity equal to open_threshold, with a budget that
\* could pay every tier, is routed to 'rule'
C4_Witness ==
    /\ Called /\ OrderedThresholds /\ AllTiersInstantiated
    /\ ReqComplexity = Thresholds(config).open
    /\ ~ReqCritical
    /\ \A t \in Tiers : ReqRemaining >= MinCost(config, t)
    /\ selected.model_type = "rule"

C5_Case ==
    /\ Called /\ OrderedThresholds /\ AllTiersInstantiated
    /\ ReqComplexity > Thresholds(config).premium
    /\ ReqRemaining < MinCost(config, "premium")

\* C5 as claimed: with ordered thresholds and all tiers instantiated, when
\* complexity > premium_threshold and remaining is below premium's floor,
\* select_model returns 'mid' if remaining >= mid's floor and otherwise
\* 'rule', for every configuration of the floors.
C5_MidElseRule ==
    C5_Case =>
        /\ ~selected.raised
        /\ selected.model_type =
              IF ReqRemaining >= MinCost(config, "mid") THEN "mid" ELSE "rule"

\* C5 amended: in that case select_model returns 'mid' if remaining >=
\* mid's floor, otherwise 'open' if remaining >= open's floor, and
\* otherwise 'rule'.
C5_MidElseOpenElseRule ==
    C5_Case =>
        /\ ~selected.raised
        /\ selected.model_type =
              IF ReqRemaining >= MinCost(config, "mid") THEN "mid"
              ELSE IF ReqRemaining >= MinCost(config, "open") THEN "open"
              ELSE "rule"

\* C5's case: premium and mid are not affordable, open is, and 'open' is
\* returned
C5_Witness ==
    /\ C5_Case
    /\ ReqRemaining < MinCost(config, "mid")
    /\ ReqRemaining >= MinCost(config, "open")
    /\ selected.model_type = "open"

\* ------------------------------------------------------- the tracker
RECURSIVE SumCostsSince(_, _)
\* the sum of the costs of the records of a ledger stamped at or after a
\* time
SumCostsSince(ledger, since) ==
    IF ledger = <<>> THEN 0
    ELSE (IF Head(ledger).timestamp >= since THEN Head(ledger).cost ELSE 0)
         + SumCostsSince(Tail(ledger), since)

\* the reads of the clock of a call with two reads, and with three
Reads2 == {<<clock, t2>> : t2 \in NowAfter(clock, clock)}

Reads3 ==
    {r \in {clock} \X NowAfter(clock, clock) \X NowAfter(clock, clock) :
        r[2] <= r[3]}

\* the day, week and month a time lies in
Periods(t) == <<Day(t), GetWeekStart(t), MonthStart(t)>>

Anchors(tr) == <<tr.current_day, tr.current_week, tr.current_month>>

Counters(tr) == <<tr.daily_expenses, tr.weekly_expenses, tr.monthly_expenses>>

Used(status) == <<status.daily_used, status.weekly_used, status.monthly_used>>

\* the anchors as times: a date is its midnight
AnchorTimes(tr) ==
    <<tr.current_day * Calendar.slots_per_day, tr.current_week,
      tr.current_month * Calendar.slots_per_day>>

\* C2: in every reachable state of a tracker, also after a clock tick
\* between the rollover check and the timestamping inside record_expense,
\* each period counter equals the sum of the costs of the ledger records
\* stamped on or after that period's current anchor.
C2_CountersEqualLedgerSums ==
    \A p \in 1..3 :
        Counters(tracker)[p] = SumCostsSince(tracker.expenses, AnchorTimes(tracker)[p])

\* C6: when no period boundary is crossed, record_expense(x) followed at
\* once by check_budget_status() shows daily_used, weekly_used and
\* monthly_used each increased by exactly x relative to the status before
\* the call, and the ledger is exactly one record longer.
C6_RecordThenCheckAddsX ==
    [][\A x \in Costs : \A r \in Reads3 :
          RecordExpenseAt(x, "unknown", r[1], r[2], r[3]) =>
            LET before == CheckBudgetStatusFn(tracker, clock, clock).status
            IN  \A u2 \in NowAfter(clock', clock') :
                  Periods(u2) = Periods(clock) =>
                    LET after == CheckBudgetStatusFn(tracker', clock', u2).status
                    IN  /\ \A p \in 1..3 : Used(after)[p] = Used(before)[p] + x
                        /\ Len(tracker'.expenses) = Len(tracker.expenses) + 1]_vars

\* C6's case: two expenses recorded in the current day, week and month,
\* and the three counters show both
C6_Witness ==
    /\ Len(tracker.expenses) = 2
    /\ \A i \in 1..2 : /\ tracker.expenses[i].cost > 0
                       /\ Periods(tracker.expenses[i].timestamp) = Periods(clock)
    /\ Anchors(tracker) = Periods(clock)
    /\ \A p \in 1..3 :
          Counters(tracker)[p] = tracker.expenses[1].cost + tracker.expenses[2].cost

\* C7: if a day, week or month boundary has been crossed since the tracker
\* last evaluated its periods, record_expense(x) resets that period's
\* counter and advances its anchor before it adds x: after the call the
\* counter of the rolled-over period is exactly x.
C7_RolloverBeforeAdd ==
    [][\A x \in Costs : \A r \in Reads3 :
          RecordExpenseAt(x, "unknown", r[1], r[2], r[3]) =>
            \A p \in 1..3 :
              Periods(clock)[p] # Anchors(tracker)[p] =>
                /\ Counters(tracker')[p] = x
                /\ Anchors(tracker')[p] > Anchors(tracker)[p]
                /\ Anchors(tracker')[p] >= Periods(clock)[p]]_vars

\* C7's case: an expense of an earlier day is in the ledger, a second one
\* was recorded after midnight, and the daily counter is the second cost
C7_Witness ==
    /\ Len(tracker.expenses) = 2
    /\ tracker.expenses[1].cost > 0
    /\ tracker.expenses[2].cost > 0
    /\ Day(tracker.expenses[1].timestamp) < Day(tracker.expenses[2].timestamp)
    /\ tracker.current_day = Day(tracker.expenses[2].timestamp)
    /\ tracker.daily_expenses = tracker.expenses[2].cost

\* C8: a rollover of one period resets only that period's counter: after a
\* clock advance that crosses the boundary of some periods and not of
\* others, check_budget_status() reports 0 spend for each crossed period
\* and leaves the counter and anchor of each uncrossed period unchanged.
C8_RolloverResetsOnlyItsPeriod ==
    \A r \in Reads2 :
        LET res == CheckBudgetStatusFn(tracker, r[1], r[2])
        IN  \A p \in 1..3 :
              /\ Periods(clock)[p] # Anchors(tracker)[p] =>
                    /\ Used(res.status)[p] = 0
                    /\ Counters(res.tracker)[p] = 0
              /\ Periods(r[2])[p] = Anchors(tracker)[p] =>
                    /\ Used(res.status)[p] = Counters(tracker)[p]
                    /\ Counters(res.tracker)[p] = Counters(tracker)[p]
                    /\ Anchors(res.tracker)[p] = Anchors(tracker)[p]

\* C8's case: an expense of Sunday, a status check on Tuesday of the same
\* month: the weekly counter is back to 0, the monthly one keeps the
\* expense
C8_Witness ==
    /\ Len(tracker.expenses) = 1
    /\ tracker.expenses[1].cost > 0
    /\ Day(tracker.expenses[1].timestamp) = 0
    /\ Day(clock) = 2
    /\ Anchors(tracker) = Periods(clock)
    /\ tracker.weekly_expenses = 0
    /\ tracker.daily_expenses = 0
    /\ tracker.monthly_expenses = tracker.expenses[1].cost

\* the scenario's precondition: the tracker was constructed, every
\* expense recorded and the status checked within one day; the clock
\* never goes back, so this is a check that ends on the construction day
InOneDay(t) == Day(t) = 0 /\ tracker.current_day = 0

\* C9 as claimed: with daily_limit 10, warning_threshold 2 and
\* critical_threshold 0.5, after expenses summing to 9.6 in one day
\* check_budget_status() reports is_warning = True and is_critical = False,
\* and after expenses summing to 9.51 it reports is_critical = True.
C9_ScenarioFlags ==
    \A r \in Reads2 :
        InOneDay(r[2]) =>
            LET status == CheckBudgetStatusFn(tracker, r[1], r[2]).status
            IN  /\ SumCostsSince(tracker.expenses, 0) = 19200 =>
                      (status.is_warning /\ ~status.is_critical)
                /\ SumCostsSince(tracker.expenses, 0) = 19020 =>
                      status.is_critical

\* C9 amended: after expenses summing to 9.6 in one day the status has
\* is_warning = True and is_critical = True (0.4 is left, no more than
\* 0.5), and after expenses summing to 9.51 it has is_critical = True.
C9_ScenarioFlagsBothSet ==
    \A r \in Reads2 :
        InOneDay(r[2]) =>
            LET status == CheckBudgetStatusFn(tracker, r[1], r[2]).status
            IN  /\ SumCostsSince(tracker.expenses, 0) = 19200 =>
                      (status.is_warning /\ status.is_critical)
                /\ SumCostsSince(tracker.expenses, 0) = 19020 =>
                      status.is_critical

\* C9's case: two expenses of one day that sum to 9.6
C9_Witness ==
    /\ InOneDay(clock)
    /\ Len(tracker.expenses) = 2
    /\ SumCostsSince(tracker.expenses, 0) = 19200
    /\ tracker.daily_expenses = 19200

\* the least element of a set of numbers
Least(S) == CHOOSE m \in S : \A y \in S : m <= y

\* what is left of each period of a tracker
Headroom(tr) ==
    {IF tr.daily_budget > tr.daily_expenses
        THEN tr.daily_budget - tr.daily_expenses ELSE 0,
     IF tr.weekly_budget > tr.weekly_expenses
        THEN tr.weekly_budget - tr.weekly_expenses ELSE 0,
     IF tr.monthly_budget > tr.monthly_expenses
        THEN tr.monthly_budget - tr.monthly_expenses ELSE 0}

\* C10: check_budget_status().remaining is the minimum over the three
\* periods of max(0, limit - spent), can_afford(c) is true exactly when c
\* is at most that minimum, and remaining is never negative, also when a
\* limit is overspent.
C10_RemainingIsLeastHeadroom ==
    \A r \in Reads2 :
        LET res == CheckBudgetStatusFn(tracker, r[1], r[2])
        IN  /\ res.status.remaining = Least(Headroom(res.tracker))
            /\ res.status.remaining >= 0
            /\ \A c \in 0..(MaxCost + 2) :
                  CanAffordFn(tracker, c, r[1], r[2]).ret
                      <=> c <= Least(Headroom(res.tracker))

\* C10's case: the weekly limit is overspent while the daily one is not,
\* the status is checked and nothing remains
C10_Witness ==
    /\ Anchors(tracker) = Periods(clock)
    /\ tracker.weekly_expenses > tracker.weekly_budget
    /\ tracker.daily_expenses < tracker.daily_budget
    /\ CheckBudgetStatusFn(tracker, clock, clock).status.remaining = 0
    /\ ~CanAffordFn(tracker, 1, clock, clock).ret

\* C11: across record_expense calls with non-negative costs during which
\* no day, week or month boundary is crossed and reset_budgets is not
\* called, the remaining of check_budget_status() observed after a call is
\* less than or equal to the one observed before it.
C11_RemainingNeverGrows ==
    [][\A x \in Costs : \A r \in Reads3 :
          RecordExpenseAt(x, "unknown", r[1], r[2], r[3]) =>
            LET before == CheckBudgetStatusFn(tracker, clock, clock).status
            IN  \A u2 \in NowAfter(clock', clock') :
                  Periods(u2) = Periods(clock) =>
                    CheckBudgetStatusFn(tracker', clock', u2).status.remaining
                        <= before.remaining]_vars

\* C11's case: two expenses of the current day, week and month have taken
\* the remaining amount from the least limit down to nothing
C11_Witness ==
    /\ Len(tracker.expenses) = 2
    /\ \A i \in 1..2 : /\ tracker.expenses[i].cost > 0
                       /\ Periods(tracker.expenses[i].timestamp) = Periods(clock)
    /\ Anchors(tracker) = Periods(clock)
    /\ CheckBudgetStatusFn(tracker, clock, clock).status.remaining = 0
    /\ Least(Headroom(NewTracker(config, clock, clock, clock))) > 0

\* the configured limits, and the per-period remaining of a status
Limits(tr) == <<tr.daily_budget, tr.weekly_budget, tr.monthly_budget>>

PeriodRemaining(status) ==
    <<status.daily_remaining, status.weekly_remaining, status.monthly_remaining>>

\* C12 as claimed: immediately after a rollover of a period, with no
\* expense recorded since, check_budget_status().remaining equals the full
\* configured limit of the period that rolled over, whatever was spent
\* before.
C12_RemainingIsRolledLimit ==
    \A r \in Reads2 :
        LET res == CheckBudgetStatusFn(tracker, r[1], r[2])
        IN  \A p \in 1..3 :
              Periods(clock)[p] # Anchors(tracker)[p] =>
                  res.status.remaining = Limits(tracker)[p]

\* C12 amended: immediately after a rollover of a period, with no expense
\* recorded since, the status's remaining of that period (daily_remaining,
\* weekly_remaining, monthly_remaining) equals the period's full limit,
\* whatever was spent before; the overall remaining is at most that limit
\* and equals it exactly when no other period has less left.
C12_PeriodRemainingIsRolledLimit ==
    \A r \in Reads2 :
        LET res == CheckBudgetStatusFn(tracker, r[1], r[2])
        IN  \A p \in 1..3 :
              Periods(clock)[p] # Anchors(tracker)[p] =>
                  /\ PeriodRemaining(res.status)[p] = Limits(tracker)[p]
                  /\ res.status.remaining <= Limits(tracker)[p]
                  /\ res.status.remaining = Limits(tracker)[p]
                       <=> \A q \in 1..3 :
                              PeriodRemaining(res.status)[q] >= Limits(tracker)[p]

\* C12's case: an expense of the first day, the status checked on a later
\* day: the day's spend is back to 0 and the whole daily limit is left,
\* while the month still carries the expense
C12_Witness ==
    /\ Len(tracker.expenses) >= 1
    /\ tracker.expenses[1].cost > 0
    /\ Day(tracker.expenses[1].timestamp) = 0
    /\ Day(clock) > 0
    /\ Anchors(tracker) = Periods(clock)
    /\ tracker.daily_expenses = 0
    /\ tracker.monthly_expenses > 0
    /\ BuildStatus(tracker).daily_remaining = tracker.daily_budget

\* C13: get_total_expenses() is the sum of the costs passed to
\* record_expense since construction or the last reset_budgets: it is 0 at
\* construction, and from every reachable state record_expense(x) adds
\* exactly x, reset_budgets takes it to 0, and a status check or
\* can_afford, with the rollovers they perform, leaves it unchanged.
C13_TotalIsSumOfCosts ==
    LET total == GetTotalExpenses(tracker)
    IN  /\ \A r \in Reads3 :
            /\ GetTotalExpenses(NewTracker(config, r[1], r[2], r[3])) = 0
            /\ GetTotalExpenses(ResetBudgetsFn(tracker, r[1], r[2], r[3])) = 0
            /\ \A x \in Costs :
                  GetTotalExpenses(RecordExpenseFn(tracker, x, "unknown",
                                                   r[1], r[2], r[3])) = total + x
        /\ \A r \in Reads2 :
            /\ GetTotalExpenses(CheckBudgetStatusFn(tracker, r[1], r[2]).tracker)
                  = total
            /\ \A x \in Costs :
                  GetTotalExpenses(CanAffordFn(tracker, x, r[1], r[2]).tracker)
                      = total

\* C13's case: an expense of January and one of February, with the month
\* rolled over between them, and the total holds both
C13_Witness ==
    /\ Len(tracker.expenses) = 2
    /\ tracker.expenses[1].cost > 0
    /\ tracker.expenses[2].cost > 0
    /\ MonthStart(tracker.expenses[1].timestamp) < MonthStart(tracker.expenses[2].timestamp)
    /\ tracker.current_month = MonthStart(tracker.expenses[2].timestamp)
    /\ tracker.monthly_expenses = tracker.expenses[2].cost
    /\ GetTotalExpenses(tracker) = tracker.expenses[1].cost + tracker.expenses[2].cost

\* C14: in every reachable state get_total_expenses() is greater than or
\* equal to each of the daily, weekly and monthly counters, and none of
\* the three counters is negative.
C14_TotalBoundsCounters ==
    \A p \in 1..3 :
        /\ Counters(tracker)[p] >= 0
        /\ GetTotalExpenses(tracker) >= Counters(tracker)[p]

\* C14's case: after a rollover the total is strictly above the daily
\* counter, which holds the expense recorded since
C14_Witness ==
    /\ Len(tracker.expenses) = 2
    /\ tracker.daily_expenses > 0
    /\ GetTotalExpenses(tracker) > tracker.daily_expenses
    /\ GetTotalExpenses(tracker) >= tracker.monthly_expenses

\* C15: is_warning is daily_remaining <= warning_threshold and is_critical
\* is daily_remaining <= critical_threshold; so with critical_threshold <=
\* warning_threshold every status with is_critical has is_warning, and a
\* weekly or monthly limit that is exhausted while more than
\* warning_threshold is left of the day sets neither flag.
C15_FlagsFromDailyAlone ==
    \A r \in Reads2 :
        LET res == CheckBudgetStatusFn(tracker, r[1], r[2])
            tr == res.tracker
            st == res.status
        IN  /\ st.is_warning <=> st.daily_remaining <= tr.warning_threshold
            /\ st.is_critical <=> st.daily_remaining <= tr.critical_threshold
            /\ tr.critical_threshold <= tr.warning_threshold =>
                  (st.is_critical => st.is_warning)
            /\ (/\ st.weekly_remaining = 0 \/ st.monthly_remaining = 0
                /\ st.daily_remaining > tr.warning_threshold
                /\ tr.critical_threshold <= tr.warning_threshold) =>
                  (~st.is_warning /\ ~st.is_critical)

\* C15's case: the weekly limit is exhausted by an expense of an earlier
\* day, the whole daily limit is left, and the status has neither flag
C15_Witness ==
    /\ Anchors(tracker) = Periods(clock)
    /\ tracker.weekly_expenses >= tracker.weekly_budget
    /\ tracker.daily_expenses = 0
    /\ BuildStatus(tracker).weekly_remaining = 0
    /\ ~BuildStatus(tracker).is_warning
    /\ ~BuildStatus(tracker).is_critical

\* ---------------------------------------------------------- the router
\* the per-unit cost a configuration gives a tier, 0 when it gives none
ConfiguredCost(t) ==
    IF t \in DOMAIN config.models /\ "cost_per_1k_tokens" \in DOMAIN config.models[t]
    THEN config.models[t].cost_per_1k_tokens
    ELSE 0

\* C16: update_routing_performance(description, tier, success) records
\* exactly one expense equal to the tier's configured cost_per_1k_tokens (0
\* when unconfigured) for every tier other than 'rule', whether success is
\* true or false, and records no expense and changes no budget counter
\* when tier is 'rule'.
C16_UpdateRecordsTierCost ==
    \A d \in RouterDescriptions : \A t \in Tiers : \A success \in BOOLEAN :
    \A r \in Reads3 :
        LET res == UpdateRoutingPerformanceFn(config, history, tracker, d, t,
                                              success, r[1], r[2], r[3])
            n == Len(tracker.expenses)
        IN  IF t = "rule"
            THEN res.tracker = tracker
            ELSE /\ Len(res.tracker.expenses) = n + 1
                 /\ SubSeq(res.tracker.expenses, 1, n) = tracker.expenses
                 /\ res.tracker.expenses[n + 1].cost = ConfiguredCost(t)
                 /\ GetTotalExpenses(res.tracker)
                        = GetTotalExpenses(tracker) + ConfiguredCost(t)

\* C16's case: the ledger of a router holds the cost of premium and the
\* cost 0 of open, which has none configured
C16_Witness ==
    /\ config \in RouterConfigs
    /\ Len(tracker.expenses) = 2
    /\ tracker.expenses[1].cost = ConfiguredCost("premium")
    /\ tracker.expenses[1].cost > 0
    /\ tracker.expenses[2].cost = 0
    /\ "cost_per_1k_tokens" \notin DOMAIN config.models["open"]

\* C17: each RouterAgent.select_model call runs the scorer, the tracker's
\* status check and the selector, then appends exactly one RoutingDecision
\* whose complexity and tier are the values it returns and whose
\* budget_remaining is the remaining of the status obtained in that same
\* call; the call records no expense and leaves the ledger unchanged.
C17_SelectAppendsOneDecision ==
    [][\A d \in RouterDescriptions : \A c \in RouterContexts : \A r \in Reads2 :
          RouterSelectModelAt(d, c, r[1], r[2]) =>
            LET complexity == CalculateComplexityFn(config, history, d, c).score
                status == CheckBudgetStatusFn(tracker, r[1], r[2]).status
                n == Len(routing_history)
            IN  /\ Len(history') = Len(history) + 1
                /\ Len(routing_history') = n + 1
                /\ SubSeq(routing_history', 1, n) = routing_history
                /\ routing_history'[n + 1].complexity = complexity
                /\ routing_history'[n + 1].model_type
                       = SelectModelFn(config, models, complexity, status).model_type
                /\ routing_history'[n + 1].budget_remaining = status.remaining
                /\ tracker'.expenses = tracker.expenses
                /\ Counters(tracker') = Counters(CheckBudgetStatusFn(tracker, r[1], r[2]).tracker)]_vars

\* -------------------------------------------------- concurrent callers

\* C18: record_expense and the rollover check are not atomic: with two
\* threads on one tracker a state is reachable in which no call is running,
\* no period boundary was crossed, and a period counter differs from the
\* sum of the ledger costs recorded in that period (C18_Witness).  What the
\* interleavings cannot do is invent spending: in every state each counter
\* lies between 0 and the sum of all the ledger's costs, so a divergence
\* is an update that was lost or a cost that a reset wiped.
C18_SharedCountersLoseNeverInvent ==
    \A p \in 1..3 :
        /\ CounterOf(tracker, p) >= 0
        /\ CounterOf(tracker, p) <= GetTotalExpenses(tracker)

\* C18's case: both threads have returned from record_expense on the day
\* the tracker was constructed, and the daily counter holds less than the
\* costs of the day's two records
C18_Witness ==
    /\ \A c \in Callers : callers[c].op = "idle"
    /\ Day(clock) = Day(SharedStart)
    /\ Len(tracker.expenses) = Cardinality(Callers)
    /\ \A i \in 1..Len(tracker.expenses) :
           Day(tracker.expenses[i].timestamp) = tracker.current_day
    /\ tracker.daily_expenses
           # SumCostsSince(tracker.expenses, AnchorTimes(tracker)[1])
    /\ tracker.daily_expenses < GetTotalExpenses(tracker)

\* ----------------------------------------------------------- the scorer

\* the most recent min(n, limit) records of a history of n, in order
MostRecent(hist, limit) ==
    LET n == Len(hist)
        kept == Min2(n, limit)
    IN  [i \in 1..kept |-> hist[n - kept + i]]

\* update_model_performance, called in the current state, leaves at most
\* HistoryLimit records: the most recent ones, in their order
TrimKeepsMostRecent ==
    \A model_type \in Tiers : \A success \in BOOLEAN :
        LET h == UpdateModelPerformanceFn(history, request.task_description,
                                          model_type, success)
        IN  /\ Len(h) <= HistoryLimit
            /\ h = MostRecent(history, HistoryLimit)

\* C19: after any update_model_performance call the scorer's history holds
\* at most 1000 records, exactly the most recent min(n, 1000) of the n it
\* held, in order; calculate_complexity appends exactly one record per
\* call and never trims, so the history can exceed 1000 between updates.
C19_HistoryBoundedAfterUpdate ==
    /\ []TrimKeepsMostRecent
    /\ [][CalculateComplexity =>
            /\ Len(history') = Len(history) + 1
            /\ SubSeq(history', 1, Len(history)) = history]_vars

\* C20: for every description and context, calculate_complexity returns,
\* without raising, a score in [0, 1].
C20_ScoreInUnitInterval ==
    selected # NoScore =>
        /\ ~selected.raised
        /\ selected.score \in 0..10

\* C21: whenever a context mapping is passed to calculate_complexity, an
\* empty mapping included, the features of the scoring record the call
\* appends contain historical_success_rate, similar_tasks_complexity and
\* user_skill_level, each the context's value or 0.5 when the context lacks
\* the key; when no context is passed the three features are absent.
C21_ContextFeaturesMerged ==
    (selected # NoScore /\ ~selected.raised) =>
        LET features == history[Len(history)].features
        IN  IF request.context = None
            THEN ContextKeys \cap DOMAIN features = {}
            ELSE \A k \in ContextKeys :
                    /\ k \in DOMAIN features
                    /\ features[k] = Get(request.context, k, DefaultContextValue)

\* ---------------------------------------------------- the fallback chain

\* C22: fallback_model(t) returns the element immediately after t in the
\* configured fallback_order, and none exactly when t is absent from the
\* chain or is its last element; it never returns t itself.  (The call
\* leaves the chain as it was: FallbackModel changes no variable but the
\* returned value.)
C22_FallbackIsNextInChain ==
    (request.op = "fallback_model" /\ selected # NoSelection) =>
        LET order == FallbackOrder(config)
            t == request.current_model
            ret == selected.ret
        IN  /\ ret = None <=>
                  (t \notin Elements(order) \/ t = order[Len(order)])
            /\ ret # None =>
                  /\ \E i \in 1..(Len(order) - 1) :
                        order[i] = t /\ order[i + 1] = ret.value
                  /\ ret.value # t

\* the tiers a degradation has been through are all different
NeverRevisits(visited) ==
    \A i, j \in 1..Len(visited) : visited[i] = visited[j] => i = j

\* C30: for every configured fallback_order and every starting tier, the
\* degradation loop that replaces the current tier by
\* fallback_model(current tier) reaches none after at most
\* len(fallback_order) steps: the walk never revisits a tier and replaces
\* the current tier at most len(fallback_order) times.
C30_FallbackWalkTerminates ==
    request.op = "fallback_model" =>
        /\ NeverRevisits(request.visited)
        /\ Len(request.visited) - 1 <= Len(FallbackOrder(config))

\* ------------------------------------------------------ the tier catalog

\* C23: for every configuration, the instantiated tier catalog consists of
\* exactly the tiers whose configuration has enabled = true, plus 'rule',
\* which is present even when it is missing from the configuration or
\* configured with enabled = false.
C23_CatalogIsEnabledPlusRule ==
    /\ "rule" \in models
    /\ \A t \in Tiers \ {"rule"} :
          t \in models <=>
              /\ t \in DOMAIN config.models
              /\ "enabled" \in DOMAIN config.models[t]
              /\ config.models[t].enabled = TRUE
    /\ models \subseteq Tiers

\* C23's case: a selector built from a configuration that disables rule
\* and premium and enables mid: the catalog holds rule and mid, not premium
C23_Witness ==
    /\ {"rule", "premium", "mid"} \subseteq DOMAIN config.models
    /\ ~config.models["rule"].enabled
    /\ ~config.models["premium"].enabled
    /\ config.models["mid"].enabled
    /\ "open" \notin DOMAIN config.models
    /\ models = {"rule", "mid"}

\* ------------------------------------------------- the append-only ledger

\* C24: the ledger is append-only: from every reachable state
\* record_expense, check_budget_status, can_afford and get_expense_history,
\* with the period rollovers they perform, leave every existing ledger
\* record in place and unchanged; only reset_budgets changes existing
\* content: it empties the ledger, zeroes the three counters and moves the
\* three anchors to the time of the call, and leaves limits and thresholds
\* as they were.
C24_LedgerAppendOnly ==
    LET n == Len(tracker.expenses)
    IN  /\ \A r \in Reads3 :
            /\ \A x \in Costs :
                  LET after == RecordExpenseFn(tracker, x, "unknown",
                                               r[1], r[2], r[3]).expenses
                  IN  /\ Len(after) = n + 1
                      /\ SubSeq(after, 1, n) = tracker.expenses
            /\ LET tr == ResetBudgetsFn(tracker, r[1], r[2], r[3])
               IN  /\ tr.expenses = <<>>
                   /\ Counters(tr) = <<0, 0, 0>>
                   /\ Anchors(tr) = <<Day(r[1]), GetWeekStart(r[2]), MonthStart(r[3])>>
                   /\ Limits(tr) = Limits(tracker)
                   /\ tr.warning_threshold = tracker.warning_threshold
                   /\ tr.critical_threshold = tracker.critical_threshold
        /\ \A r \in Reads2 :
            /\ CheckBudgetStatusFn(tracker, r[1], r[2]).tracker.expenses
                  = tracker.expenses
            /\ \A x \in Costs :
                  CanAffordFn(tracker, x, r[1], r[2]).tracker.expenses
                      = tracker.expenses
        /\ \A period \in HistoryPeriods :
              GetExpenseHistoryFn(tracker, period, clock).tracker.expenses
                  = tracker.expenses

\* C24's case: the ledger holds two expenses of a day that is over, the
\* rollover has zeroed the daily counter, and get_expense_history('day')
\* would return only part of the ledger
C24_Witness ==
    /\ Len(tracker.expenses) = 2
    /\ \A i \in 1..2 : Day(tracker.expenses[i].timestamp) < tracker.current_day
    /\ tracker.expenses[1].cost > 0
    /\ tracker.daily_expenses = 0
    /\ Len(GetExpenseHistoryFn(tracker, "day", clock).ret) = 1

\* ------------------------------------------------------ expense history

\* the rolling window of a period, in days: 24 hours, 7 days, 30 days
RollingDays(period) ==
    CASE period = "day" -> 1
      [] period = "week" -> 7
      [] period = "month" -> 30

\* the places of the ledger whose record is at most a rolling window old
\* at time now; every place for a period that has no window
InWindow(expenses, period, now) ==
    {i \in 1..Len(expenses) :
        period \in {"day", "week", "month"} =>
            now - expenses[i].timestamp
                <= RollingDays(period) * Calendar.slots_per_day}

\* the j-th least element of a set of numbers
NthOf(S, j) == CHOOSE i \in S : Cardinality({k \in S : k <= i}) = j

\* C25: get_expense_history(period) returns exactly the ledger records
\* stamped at or after now minus a rolling window (day: 24 hours, week: 7
\* days, month: 30 days, anything else: no cutoff), in ledger order and
\* whatever the calendar anchors are, and changes no counter, anchor or
\* ledger record; so an expense of late yesterday is returned for 'day'
\* shortly after midnight although the daily counter is back at 0
\* (C25_Witness).
C25_HistoryIsRollingWindow ==
    \A period \in HistoryPeriods :
        LET r == GetExpenseHistoryFn(tracker, period, clock)
            recent == InWindow(tracker.expenses, period, clock)
        IN  /\ r.tracker = tracker
            /\ Len(r.ret) = Cardinality(recent)
            /\ \A j \in 1..Len(r.ret) :
                  r.ret[j] = tracker.expenses[NthOf(recent, j)]

\* C25's case: get_expense_history('day') has just returned, in the first
\* slot after midnight, the expense recorded in the last slot of yesterday,
\* while the rollover has put the daily counter back to 0
C25_Witness ==
    /\ selected # NoSelection
    /\ selected.op = "get_expense_history"
    /\ selected.period = "day"
    /\ selected.now = clock
    /\ clock = Calendar.slots_per_day
    /\ Len(tracker.expenses) = 1
    /\ tracker.expenses[1].timestamp = Calendar.slots_per_day - 1
    /\ tracker.expenses[1].cost > 0
    /\ tracker.current_day = Day(clock)
    /\ tracker.daily_expenses = 0
    /\ BuildStatus(tracker).daily_used = 0
    /\ selected.ret = tracker.expenses

\* ------------------------------------------------- repeated status checks

\* C26: two consecutive check_budget_status() calls with no record_expense,
\* reset_budgets or clock advance between them return identical status
\* mappings, and the second call changes no tracker state: from every
\* reachable state, a check followed by a check at the same clock time
\* gives the same status and leaves the tracker the first check left.
C26_CheckTwiceIsCheckOnce ==
    LET first == CheckBudgetStatusFn(tracker, clock, clock)
        second == CheckBudgetStatusFn(first.tracker, clock, clock)
    IN  /\ second.status = first.status
        /\ second.tracker = first.tracker

\* C26's case: a tracker with spending whose day and week are over: the
\* first check rolls them over and the second finds nothing to do
C26_Witness ==
    /\ tracker.daily_expenses > 0
    /\ tracker.current_day # Day(clock)
    /\ tracker.current_week # GetWeekStart(clock)
    /\ CheckBudgetStatusFn(tracker, clock, clock).tracker # tracker
    /\ CheckBudgetStatusFn(tracker, clock, clock).status.daily_used = 0

\* ----------------------------------------------- overspend of a routed run

\* remaining is below the floor of every tier but 'rule'
BelowEveryFloor(cfg, tr) ==
    \A t \in Tiers \ {"rule"} : BuildStatus(tr).remaining < MinCost(cfg, t)

\* the amount by which a period's spend exceeds its limit
Overspend(limit, spent) == Max2(0, spent - limit)

\* the limit of the day, the week or the month
LimitOf(tr, p) ==
    CASE p = 1 -> tr.daily_budget
      [] p = 2 -> tr.weekly_budget
      [] p = 3 -> tr.monthly_budget

C28_RoutedCostCarriesTier ==
    \A d \in RouterDescriptions : \A t \in Tiers \ {"rule"} : \A r \in Reads3 :
        LET upd == UpdateRoutingPerformanceFn(config, history, tracker, d, t,
                                              TRUE, r[1], r[2], r[3])
            ledger == upd.tracker.expenses
            breakdown == GetModelExpenseBreakdown(upd.tracker)
        IN  /\ Len(ledger) = Len(tracker.expenses) + 1
            /\ ledger[Len(ledger)].model_type = t
            /\ t \in DOMAIN breakdown
            /\ breakdown[t] >= GetModelCost(config, t)

\* ------------------------------------------------ monotone selection

\* the tier order rule < open < mid < premium
TierRank(model_type) ==
    CASE model_type = "rule" -> 0
      [] model_type = "open" -> 1
      [] model_type = "mid" -> 2
      [] model_type = "premium" -> 3

\* the tier select_model returns for a complexity under the budget status
\* of the request
TierFor(complexity) ==
    SelectModelFn(config, models, complexity, request.budget_status).model_type

\* C29: with thresholds premium >= mid >= open, all four tiers instantiated
\* and a fixed budget status, select_model is monotone in complexity under
\* the order rule < open < mid < premium: the tier returned for the
\* complexity of the call is not higher than the tier for any greater
\* complexity and not lower than the tier for any lesser one.
C29_MonotoneInComplexity ==
    (Called /\ AllTiersInstantiated /\ OrderedThresholds) =>
        \A c \in ComplexityValues :
            /\ c >= request.complexity =>
                   TierRank(selected.model_type) <= TierRank(TierFor(c))
            /\ c <= request.complexity =>
                   TierRank(TierFor(c)) <= TierRank(selected.model_type)

\* C29's case: a call that returned 'mid' under thresholds in strict order,
\* with a greater complexity that gets 'premium' and lesser ones that get
\* 'open' and 'rule'
C29_Witness ==
    /\ Called /\ AllTiersInstantiated /\ OrderedThresholds
    /\ selected.model_type = "mid"
    /\ \E c \in ComplexityValues : c > request.complexity /\ TierFor(c) = "premium"
    /\ \E c \in ComplexityValues : c < request.complexity /\ TierFor(c) = "open"
    /\ TierFor(0) = "rule"

====
